---- MODULE Spec2Model ----
(***************************************************************************)
(* A model of the 2048 board engine (js/grid.js), of the click editor and  *)
(* of the minimax search of js/smart_ai.js.                                *)
(*                                                                         *)
(* A tile is a record [x, y, value, previousPosition, mergedFrom]; a null  *)
(* reference is the empty sequence <<>>, a non-null one a sequence holding *)
(* the referenced values (a cell holds <<>> or <<tile>>, mergedFrom holds  *)
(* <<>> or <<tile, next>>, previousPosition holds <<>> or <<x, y>>).       *)
(* A position {x, y} is the pair <<x, y>>.                                 *)
(***************************************************************************)
EXTENDS Integers, Sequences, FiniteSets, TLC

VARIABLES grid, editMode, manager, last, steps

vars == <<grid, editMode, manager, last, steps>>

(***************************************************************************)
(* Program constants and the bounds of the model.                          *)
(***************************************************************************)
\* new GameManager(4, ...): the size of every grid the program builds
Size == 4
\* Grid.winValue
winValue == 2048

\* the enumerated boards: a base board with at most MaxEdits cells rewritten
MaxEdits == 1
\* the number of operations of a run of the engine that starts empty
MaxSteps == 3
\* the largest depth the search is run with (nextMove passes 5)
SearchDepth == 3
\* the number of iterations of the auto-play loop, and the depth its
\* searches are run with
MaxRuns == 2
RunDepth == 0
\* the number of values a call of Math.random() is drawn from
Draws == 16

Null == <<>>

Coords == 0 .. (Size - 1)
Pos == Coords \X Coords

Max(a, b) == IF a >= b THEN a ELSE b
Min(a, b) == IF a <= b THEN a ELSE b

(***************************************************************************)
(* Tile: constructor, savePosition, updatePosition.                        *)
(***************************************************************************)
Tile(position, value) ==
    [x |-> position[1], y |-> position[2], value |-> value,
     previousPosition |-> Null, mergedFrom |-> Null]

savePosition(tile) ==
    [tile EXCEPT !.previousPosition = <<tile.x, tile.y>>]

updatePosition(tile, position) ==
    [tile EXCEPT !.x = position[1], !.y = position[2]]

(***************************************************************************)
(* Grid: the constructor and the accessors.  cells[x][y] is cells[<<x,y>>].*)
(***************************************************************************)
Grid(size) ==
    [size |-> size,
     cells |-> [p \in (0 .. (size - 1)) \X (0 .. (size - 1)) |-> Null],
     playerTurn |-> TRUE]

\* Grid.prototype.vectors
vectors ==
    [d \in 0 .. 3 |->
        CASE d = 0 -> <<0, -1>>
          [] d = 1 -> <<1, 0>>
          [] d = 2 -> <<0, 1>>
          [] d = 3 -> <<-1, 0>>]

withinBounds(g, position) ==
    /\ position[1] >= 0 /\ position[1] < g.size
    /\ position[2] >= 0 /\ position[2] < g.size

cellContent(g, cell) ==
    IF withinBounds(g, cell) THEN g.cells[cell] ELSE Null

cellOccupied(g, cell) == cellContent(g, cell) # Null

cellAvailable(g, cell) == ~cellOccupied(g, cell)

insertTile(g, tile) ==
    [g EXCEPT !.cells[<<tile.x, tile.y>>] = <<tile>>]

\* removeTile reads only the x and y of its argument
removeTile(g, tile) ==
    [g EXCEPT !.cells[<<tile[1], tile[2]>>] = Null]

positionsEqual(first, second) ==
    first[1] = second[1] /\ first[2] = second[2]

\* canMerge with the cap compared by > instead of >=
canMerge_CapExclusive(g, tile1, tile2) ==
    IF tile1.value > winValue \/ tile2.value > winValue
    THEN FALSE
    ELSE tile1.value = tile2.value

canMerge(g, tile1, tile2) ==
    IF tile1.value >= winValue \/ tile2.value >= winValue
    THEN FALSE
    ELSE tile1.value = tile2.value

\* the cells in scan order, x outer and y inner
ScanOrder(size) ==
    [i \in 1 .. (size * size) |-> <<(i - 1) \div size, (i - 1) % size>>]

availableCells(g) ==
    SelectSeq(ScanOrder(g.size), LAMBDA p : g.cells[p] = Null)

cellsAvailable(g) == Len(availableCells(g)) # 0

\* prepareTiles without tile.mergedFrom = null
prepareTiles_KeepsMergedFrom(g) ==
    [g EXCEPT !.cells =
        [p \in DOMAIN g.cells |->
            IF g.cells[p] # Null THEN <<savePosition(g.cells[p][1])>>
            ELSE Null]]

prepareTiles(g) ==
    [g EXCEPT !.cells =
        [p \in DOMAIN g.cells |->
            IF g.cells[p] # Null
            THEN <<savePosition([g.cells[p][1] EXCEPT !.mergedFrom = Null])>>
            ELSE Null]]

Reverse(s) == [i \in 1 .. Len(s) |-> s[Len(s) + 1 - i]]

\* buildTraversals without the two calls of reverse
buildTraversals_Ascending(g, vector) ==
    [x |-> [i \in 1 .. g.size |-> i - 1], y |-> [i \in 1 .. g.size |-> i - 1]]

buildTraversals(g, vector) ==
    LET asc == [i \in 1 .. g.size |-> i - 1]
    IN  [x |-> IF vector[1] = 1 THEN Reverse(asc) ELSE asc,
         y |-> IF vector[2] = 1 THEN Reverse(asc) ELSE asc]

RECURSIVE farthestFrom(_, _, _)
farthestFrom(g, previous, vector) ==
    LET next == <<previous[1] + vector[1], previous[2] + vector[2]>>
    IN  IF withinBounds(g, next) /\ cellAvailable(g, next)
        THEN farthestFrom(g, next, vector)
        ELSE [farthest |-> previous, next |-> next]

findFarthestPosition(g, cell, vector) == farthestFrom(g, cell, vector)

\* moveTile without the assignment that empties the tile's old cell
moveTile_KeepsSource(g, tile, cell) ==
    [g EXCEPT !.cells[cell] = <<updatePosition(tile, cell)>>]

\* moveTile without the call of tile.updatePosition
moveTile_StalePosition(g, tile, cell) ==
    [g EXCEPT !.cells =
        [[g.cells EXCEPT ![<<tile.x, tile.y>>] = Null]
            EXCEPT ![cell] = <<tile>>]]

moveTile(g, tile, cell) ==
    [g EXCEPT !.cells =
        [[g.cells EXCEPT ![<<tile.x, tile.y>>] = Null]
            EXCEPT ![cell] = <<updatePosition(tile, cell)>>]]

(***************************************************************************)
(* Grid.prototype.move.  The loop state st holds the grid, the locals      *)
(* moved and score, and two records of what the loop did: merges, the      *)
(* number of merges, and trail, one <<cell, final position>> per tile met. *)
(***************************************************************************)
\* the merge test without the !next.mergedFrom conjunct
mergeAllowed_IgnoresMergedFrom(g, tile, next) ==
    /\ next # Null
    /\ canMerge(g, tile, next[1])

\* the merge test of the loop body
mergeAllowed(g, tile, next) ==
    /\ next # Null
    /\ next[1].mergedFrom = Null
    /\ canMerge(g, tile, next[1])

\* moved set in the else branch only, after moveTile
countsAsMoved_OnlySlides(merging, cell, tileAfter) ==
    ~merging /\ ~positionsEqual(cell, <<tileAfter.x, tileAfter.y>>)

\* does this visit count as a move: !positionsEqual(cell, tile)
countsAsMoved(merging, cell, tileAfter) ==
    ~positionsEqual(cell, <<tileAfter.x, tileAfter.y>>)

\* the end of a visit: moved, playerTurn, the score and the two records
endVisit(st, cell, g1, merging, tileAfter, gained) ==
    [grid   |-> IF countsAsMoved(merging, cell, tileAfter)
                THEN [g1 EXCEPT !.playerTurn = FALSE]
                ELSE g1,
     moved  |-> st.moved \/ countsAsMoved(merging, cell, tileAfter),
     score  |-> st.score + gained,
     merges |-> IF merging THEN st.merges + 1 ELSE st.merges,
     trail  |-> Append(st.trail, <<cell, <<tileAfter.x, tileAfter.y>>>>),
     i      |-> st.i,
     j      |-> st.j]

\* the tile a merge creates; mergedFrom holds tile, which updatePosition
\* then moves to the cell of next
mergedTile(tile, next, position) ==
    [Tile(position, tile.value * 2)
        EXCEPT !.mergedFrom = <<updatePosition(tile, position), next>>]

\* the merge branch without this.cells[tile.x][tile.y] = null
mergeInto_KeepsTile(g, tile, next, position) ==
    [g EXCEPT !.cells[position] = <<mergedTile(tile, next, position)>>]

\* the two assignments to cells in the merge branch
mergeInto(g, tile, next, position) ==
    [g EXCEPT !.cells =
        [[g.cells EXCEPT ![position] = <<mergedTile(tile, next, position)>>]
            EXCEPT ![<<tile.x, tile.y>>] = Null]]

\* the merge branch of the loop body
visitMerging(st, cell, tile, next, position) ==
    endVisit(st, cell, mergeInto(st.grid, tile, next, position), TRUE,
             updatePosition(tile, position), tile.value * 2)

\* the else branch, slid being the grid after moveTile
visitSlid(st, cell, slid, farthest) ==
    endVisit(st, cell, slid, FALSE, cellContent(slid, farthest)[1], 0)

\* the loop body for a tile, its positions and the content of positions.next
visitTile(st, cell, tile, positions, next) ==
    IF mergeAllowed(st.grid, tile, next)
    THEN visitMerging(st, cell, tile, next[1], positions.next)
    ELSE visitSlid(st, cell, moveTile(st.grid, tile, positions.farthest),
                   positions.farthest)

visitFrom(st, cell, tile, positions) ==
    visitTile(st, cell, tile, positions, cellContent(st.grid, positions.next))

\* the loop body
moveStep(st, cell, vector) ==
    IF cellContent(st.grid, cell) = Null THEN st
    ELSE visitFrom(st, cell, cellContent(st.grid, cell)[1],
                   findFarthestPosition(st.grid, cell, vector))

\* for (const y of traversals.y): st.j is the number of the y visited next
RECURSIVE moveInner(_, _, _, _)
moveInner(st, x, ys, vector) ==
    IF st.j > Len(ys) THEN st
    ELSE moveInner([moveStep(st, <<x, ys[st.j]>>, vector) EXCEPT !.j = @ + 1],
                   x, ys, vector)

\* for (const x of traversals.x): st.i is the number of the x visited next
RECURSIVE moveLoop(_, _, _)
moveLoop(st, traversals, vector) ==
    IF st.i > Len(traversals.x) THEN st
    ELSE moveLoop([moveInner([st EXCEPT !.j = 1], traversals.x[st.i],
                             traversals.y, vector)
                     EXCEPT !.i = @ + 1],
                  traversals, vector)

\* the locals of move after prepareTiles
startMove(g) ==
    [grid |-> prepareTiles(g), moved |-> FALSE, score |-> 0,
     merges |-> 0, trail |-> <<>>, i |-> 1, j |-> 1]

\* return { moved, score, won }, with the grid and the two records
endMove(st) ==
    [grid |-> st.grid, moved |-> st.moved, score |-> st.score,
     won |-> FALSE, merges |-> st.merges, trail |-> st.trail]

moveAlong(g, vector) ==
    endMove(moveLoop(startMove(g), buildTraversals(g, vector), vector))

move(g, direction) == moveAlong(g, vectors[direction])

tileMatchesAvailable(g) ==
    \E p \in DOMAIN g.cells : \E direction \in 0 .. 3 :
        LET tile == cellContent(g, p)
            other == cellContent(g, <<p[1] + vectors[direction][1],
                                      p[2] + vectors[direction][2]>>)
        IN  /\ tile # Null
            /\ other # Null
            /\ canMerge(g, tile[1], other[1])

\* Math.random() takes the values r / Draws, r in 0 .. Draws - 1
\* const value = Math.random() < 0.9 ? 2 : 4
randomValue(r) == IF 10 * r < 9 * Draws THEN 2 ELSE 4

\* Math.floor(Math.random() * cells.length)
randomIndex(r, length) == (r * length) \div Draws

\* a variant that picks the cell among all cells, and on a full board too
addRandomTile_AnyCell(g, value, index) ==
    insertTile(g, Tile(ScanOrder(g.size)[index + 1], value))

\* addRandomTile with its two random draws made explicit: the value, and
\* the index Math.floor(Math.random() * cells.length) into availableCells
addRandomTile(g, value, index) ==
    IF cellsAvailable(g)
    THEN insertTile(g, Tile(availableCells(g)[index + 1], value))
    ELSE g

\* Grid.prototype.computerMove: the environment's turn, a random tile
computerMove(g, value, index) ==
    [addRandomTile(g, value, index) EXCEPT !.playerTurn = TRUE]

\* Grid.prototype.skipComputerMove: the turn passes and no tile is added
skipComputerMove(g) == [g EXCEPT !.playerTurn = TRUE]

\* Grid.prototype.movesAvailable
gridMovesAvailable(g) == cellsAvailable(g) \/ tileMatchesAvailable(g)

\* the fields the GameManager constructor and setup set, and the timers
GameManager ==
    [running |-> FALSE, computerGenerateTile |-> FALSE, over |-> FALSE,
     won |-> FALSE, timers |-> 0]

(***************************************************************************)
(* GameManager: setup, setCustomGrid and handleCellClick, as they act on   *)
(* the grid and on editMode.                                               *)
(***************************************************************************)
\* customGrid[i][j] is customGrid[<<i, j>>]; the tile goes to x = j, y = i
setCustomGrid(customGrid) ==
    LET empty == Grid(Size)
    IN  [empty EXCEPT !.cells =
            [p \in DOMAIN empty.cells |->
                IF customGrid[<<p[2], p[1]>>] > 0
                THEN <<Tile(p, customGrid[<<p[2], p[1]>>])>>
                ELSE Null]]

\* the value a click gives a tile below the cap
clickedValue(tile) == tile.value * 2

handleCellClick(g, edit, x, y) ==
    IF edit
    THEN IF cellOccupied(g, <<x, y>>)
         THEN removeTile(g, <<x, y>>)
         ELSE insertTile(g, Tile(<<x, y>>, 2))
    ELSE IF cellOccupied(g, <<x, y>>)
         THEN LET tile == cellContent(g, <<x, y>>)[1]
              IN  IF tile.value < 2048
                  THEN [g EXCEPT !.cells[<<x, y>>] =
                            <<[tile EXCEPT !.value = clickedValue(tile)]>>]
                  ELSE g
         ELSE insertTile(g, Tile(<<x, y>>, 2))

(***************************************************************************)
(* SmartAI.gridQuality.  Scores are kept in hundredths: Math.pow(k, 3.5)   *)
(* and Math.pow(k, 2.5) are rounded to two decimals, every other term is   *)
(* an integer times 100.  acc holds the variables the scoreCell closure    *)
(* captures.                                                               *)
(***************************************************************************)
RECURSIVE log2(_)
log2(v) == IF v <= 1 THEN 0 ELSE 1 + log2(v \div 2)

\* 100 * Math.pow(k, 3.5) and 100 * Math.pow(k, 2.5), k = 1 .. 13
Pow35 == <<100, 1131, 4677, 12800, 27951, 52909, 90749, 144815, 218700,
           316228, 441443, 598597, 792140>>
Pow25 == <<100, 566, 1559, 3200, 5590, 8818, 12964, 18102, 24300,
           31623, 40131, 49883, 60934>>

pow4(k) == k * k * k * k

RECURSIVE pow2(_)
pow2(k) == IF k <= 0 THEN 1 ELSE 2 * pow2(k - 1)

\* the tiles >= 2048 among the four neighbours of cell
cappedNeighbours(g, cell) ==
    Cardinality({d \in 0 .. 3 :
        LET adjTile == cellContent(g, <<cell[1] + vectors[d][1],
                                        cell[2] + vectors[d][2]>>)
        IN  adjTile # Null /\ adjTile[1].value >= 2048})

\* the run counting of scoreCell: the branch taken for a non-empty cell
continuesRun(acc, tile, tileValue) ==
    acc.prevMerge = tileValue /\ tile.value < 2048

\* var tileValue = (tile ? Math.log2(tile.value) : 0)
tileValueOf(content) ==
    IF content # Null THEN log2(content[1].value) ELSE 0

\* the special handling of a tile >= 2048
scoreCapped(acc, g, cell, content) ==
    IF content # Null /\ content[1].value >= 2048
    THEN [acc EXCEPT
            !.twentyFortyEightCount = @ + 1,
            !.twentyFortyEightAlignment = @ + 1000 * cappedNeighbours(g, cell)]
    ELSE acc

\* sumScore += Math.pow(tileValue, 3.5) or Math.pow(tileValue, 2.5)
scoreSum(acc, tile, tileValue) ==
    [acc EXCEPT !.sumScore =
        @ + (IF tile.value < 2048 THEN Pow35[tileValue] ELSE Pow25[tileValue])]

\* the count of mergeable runs, and prevMerge = tileValue
scoreRun(acc, tile, tileValue) ==
    IF continuesRun(acc, tile, tileValue)
    THEN [acc EXCEPT !.counter = @ + 1, !.prevMerge = tileValue]
    ELSE IF acc.counter > 0
         THEN [acc EXCEPT !.mergeScore = @ + 1 + acc.counter,
                          !.counter = 0,
                          !.prevMerge = tileValue]
         ELSE [acc EXCEPT !.prevMerge = tileValue]

\* if (tileValue == 0) emptyScore++ else the sum and the runs
scoreContent(acc, content, tileValue) ==
    IF tileValue = 0
    THEN [acc EXCEPT !.emptyScore = @ + 1]
    ELSE scoreRun(scoreSum(acc, content[1], tileValue), content[1], tileValue)

\* Math.pow(2, prevValue) < 2048 || Math.pow(2, tileValue) < 2048
belowCap(prevValue, tileValue) ==
    pow2(prevValue) < 2048 \/ pow2(tileValue) < 2048

\* the monotonicity scoring, and prevValue = tileValue
scoreMonotonicity(acc, tileValue) ==
    IF acc.prevValue = -1
    THEN [acc EXCEPT !.prevValue = tileValue]
    ELSE IF tileValue > acc.prevValue
         THEN [acc EXCEPT
                 !.incScore = IF belowCap(acc.prevValue, tileValue)
                              THEN @ + (pow4(tileValue) - pow4(acc.prevValue))
                              ELSE @,
                 !.prevValue = tileValue]
         ELSE [acc EXCEPT
                 !.decScore = IF belowCap(acc.prevValue, tileValue)
                              THEN @ - (pow4(tileValue) - pow4(acc.prevValue))
                              ELSE @,
                 !.prevValue = tileValue]

scoreTile(acc, g, cell, content, tileValue) ==
    scoreMonotonicity(
        scoreContent(scoreCapped(acc, g, cell, content), content, tileValue),
        tileValue)

scoreContentOf(acc, g, cell, content) ==
    scoreTile(acc, g, cell, content, tileValueOf(content))

scoreCell(acc, g, cell) == scoreContentOf(acc, g, cell, cellContent(g, cell))

\* the cell the inner forEach passes to scoreCell
lineCell(fixed, other, byColumn) ==
    IF byColumn THEN <<fixed, other>> ELSE <<other, fixed>>

\* the inner forEach of one line; acc.j is the number of the cell scored next
RECURSIVE scoreLine(_, _, _, _, _)
scoreLine(acc, g, fixed, inner, byColumn) ==
    IF acc.j > Len(inner) THEN acc
    ELSE scoreLine([scoreCell(acc, g, lineCell(fixed, inner[acc.j], byColumn))
                      EXCEPT !.j = @ + 1],
                   g, fixed, inner, byColumn)

\* the assignments at the start of a line
startLine(acc) ==
    [acc EXCEPT !.prevValue = -1, !.prevMerge = -1, !.incScore = 0,
                !.decScore = 0, !.counter = 0, !.j = 1]

\* monoScore += Math.min(incScore, decScore)
endLine(acc) ==
    [acc EXCEPT !.monoScore = @ + Min(acc.incScore, acc.decScore),
                !.i = @ + 1]

\* one forEach over the columns (byColumn) or over the rows; acc.i is the
\* number of the line scanned next; the counter left by the last line is
\* added to mergeScore after the loop
RECURSIVE scoreLines(_, _, _, _, _)
scoreLines(acc, g, outer, inner, byColumn) ==
    IF acc.i > Len(outer)
    THEN IF acc.counter > 0
         THEN [acc EXCEPT !.mergeScore = @ + 1 + acc.counter, !.i = 1]
         ELSE [acc EXCEPT !.i = 1]
    ELSE scoreLines(
            endLine(scoreLine(startLine(acc), g, outer[acc.i], inner, byColumn)),
            g, outer, inner, byColumn)

\* the weighted sum, in hundredths
weightedScore(acc) ==
    100 * (-47 * acc.monoScore + 270 * acc.emptyScore + 700 * acc.mergeScore
           + 2000 * acc.twentyFortyEightCount + acc.twentyFortyEightAlignment)
    - 11 * acc.sumScore

\* the penalty of a board with no empty cell and no mergeable run
finalScore(acc) ==
    IF acc.emptyScore = 0 /\ acc.mergeScore = 0
    THEN weightedScore(acc) - 100 * 200000
    ELSE weightedScore(acc)

scoreTerms(acc) ==
    [score |-> finalScore(acc),
     monoScore |-> acc.monoScore, emptyScore |-> acc.emptyScore,
     mergeScore |-> acc.mergeScore, sumScore |-> acc.sumScore,
     twentyFortyEightCount |-> acc.twentyFortyEightCount,
     twentyFortyEightAlignment |-> acc.twentyFortyEightAlignment]

\* the variables of gridQuality before the traversals
startScore ==
    [monoScore |-> 0, prevValue |-> -1, incScore |-> 0,
     decScore |-> 0, prevMerge |-> -1, emptyScore |-> 0,
     mergeScore |-> 0, sumScore |-> 0, counter |-> 0,
     twentyFortyEightCount |-> 0, twentyFortyEightAlignment |-> 0,
     i |-> 1, j |-> 1]

\* every column, then every row
scoreBoth(g, traversals) ==
    scoreLines(scoreLines(startScore, g, traversals.x, traversals.y, TRUE),
               g, traversals.y, traversals.x, FALSE)

\* the accumulators after both traversals, and the score (in hundredths)
gridQualityTerms(g) == scoreTerms(scoreBoth(g, buildTraversals(g, <<-1, 0>>)))

gridQuality(g) == gridQualityTerms(g).score

(***************************************************************************)
(* SmartAI: the search.  Grids are objects, so the search runs on a heap   *)
(* h, a sequence of grids, and names a grid by its index in h; every       *)
(* operator returns the heap it leaves.  A grid held only by a local       *)
(* variable is dropped from the heap when the variable is overwritten or   *)
(* the function returns (release).  Two parameters are not the code's:     *)
(* ply, the number of plies between the board the search started on and    *)
(* the board of the call, and the fields evalPly (the largest ply of a     *)
(* board gridQuality was called on), isolated (no call found its own grid  *)
(* changed by the calls it made), pruned (the number of breaks taken) and  *)
(* prunedMin (those taken in the minimizing loop) of the results.          *)
(***************************************************************************)
\* JavaScript's Infinity: larger than every score
Infinity == 2000000000

\* Grid.prototype.clone: a new grid object holding a copy of every tile
clone(h, id) == [heap |-> Append(h, h[id]), ref |-> Len(h) + 1]

\* var testGrid = grid instead of grid.clone()
testGridFor_Alias(h, id) == [heap |-> h, ref |-> id]

\* var testGrid = grid.clone()
testGridFor(h, id) == clone(h, id)

release(h, n) == SubSeq(h, 1, n)

\* testGrid.move(d): the grid of the heap moved, and the flag returned
movedOn(h, id, m) == [heap |-> [h EXCEPT ![id] = m.grid], moved |-> m.moved]

moveOn(h, id, d) == movedOn(h, id, move(h[id], d))

\* testGrid.insertTile(new Tile(cell, value))
insertOn(h, id, cell, value) ==
    [h EXCEPT ![id] = insertTile(h[id], Tile(cell, value))]

\* var testGrid = grid.clone(); testGrid.move(d)
movedClone(t, m) == [heap |-> m.heap, moved |-> m.moved, ref |-> t.ref]

moveOnClone(t, d) == movedClone(t, moveOn(t.heap, t.ref, d))

cloneAndMove(h, id, d) == moveOnClone(testGridFor(h, id), d)

\* var testGrid = grid.clone(); testGrid.insertTile(new Tile(cell, value))
placeOnClone(t, cell, value) ==
    [heap |-> insertOn(t.heap, t.ref, cell, value), ref |-> t.ref]

cloneAndPlace(h, id, cell, value) ==
    placeOnClone(testGridFor(h, id), cell, value)

\* variant: the answer of the grid's own test, an empty cell or a match
movesAvailable_CellsOrMatches(h, id) ==
    [heap |-> h,
     result |-> cellsAvailable(h[id]) \/ tileMatchesAvailable(h[id])]

RECURSIVE movesAvailableFrom(_, _, _)
\* the body of the loop after the move m of the clone
movesAvailableAfter(h, id, d, m) ==
    IF m.moved
    THEN [heap |-> release(m.heap, Len(h)), result |-> TRUE]
    ELSE movesAvailableFrom(release(m.heap, Len(h)), id, d + 1)

movesAvailableFrom(h, id, d) ==
    IF d >= 4 THEN [heap |-> h, result |-> FALSE]
    ELSE movesAvailableAfter(h, id, d, cloneAndMove(h, id, d))

movesAvailable(h, id) == movesAvailableFrom(h, id, 0)

\* a variant that looks at the left neighbour only
hasAdjacentTile_LeftOnly(g, cell) ==
    cellContent(g, <<cell[1] + vectors[3][1], cell[2] + vectors[3][2]>>) # Null

hasAdjacentTile(g, cell) ==
    \E i \in 0 .. 3 :
        cellContent(g, <<cell[1] + vectors[i][1], cell[2] + vectors[i][2]>>) # Null

\* the cut-off tests of the two loops of planAhead
\* a wrong test: the minimizing loop stops as soon as value is below beta
cutsMin_BelowBeta(value, alpha, beta) == value < beta

\* if (value > beta) break
cutsMax(value, alpha, beta) == value > beta

\* if (value < alpha) break
cutsMin(value, alpha, beta) == value < alpha

\* value = Math.max(value, r), the heap without the locals of the iteration
joinMax(out, r, n0) ==
    [heap |-> release(r.heap, n0),
     value |-> Max(out.value, r.value),
     evalPly |-> Max(out.evalPly, r.evalPly),
     calls |-> out.calls \cup r.calls,
     isolated |-> out.isolated /\ r.isolated,
     pruned |-> out.pruned + r.pruned,
     prunedMin |-> out.prunedMin + r.prunedMin]

\* value = Math.min(value, r)
joinMin(out, r, n0) ==
    [heap |-> release(r.heap, n0),
     value |-> Min(out.value, r.value),
     evalPly |-> Max(out.evalPly, r.evalPly),
     calls |-> out.calls \cup r.calls,
     isolated |-> out.isolated /\ r.isolated,
     pruned |-> out.pruned + r.pruned,
     prunedMin |-> out.prunedMin + r.prunedMin]

\* the break of the maximizing loop
cutOffMax(out) == [out EXCEPT !.pruned = @ + 1]

\* the break of the minimizing loop
cutOffMin(out) == [out EXCEPT !.pruned = @ + 1, !.prunedMin = @ + 1]

\* did the calls of a node leave the node's own grid as it was
checkIsolated(r, h, id) == [r EXCEPT !.isolated = @ /\ r.heap[id] = h[id]]

RECURSIVE planAhead(_, _, _, _, _, _, _)
RECURSIVE maxLoop(_, _, _, _, _, _, _, _)
RECURSIVE minLoop(_, _, _, _, _, _, _, _, _)

\* the maximizing loop after value = Math.max(...): break, or alpha and on
maxAfterPlan(next, id, numMoves, alpha, beta, d, ply, n0) ==
    IF cutsMax(next.value, alpha, beta) THEN cutOffMax(next)
    ELSE maxLoop(next, id, numMoves, Max(alpha, next.value), beta, d + 1, ply, n0)

\* the maximizing loop after the move m of the clone
maxAfterMove(out, id, numMoves, alpha, beta, d, ply, n0, m) ==
    IF ~m.moved
    THEN maxLoop([out EXCEPT !.heap = release(m.heap, n0)],
                 id, numMoves, alpha, beta, d + 1, ply, n0)
    ELSE maxAfterPlan(
            joinMax(out,
                    planAhead(m.heap, m.ref, numMoves - 1, alpha, beta, FALSE,
                              ply + 1),
                    n0),
            id, numMoves, alpha, beta, d, ply, n0)

\* the maximizing loop from direction d on; out holds the heap, value and
\* the records so far
maxLoop(out, id, numMoves, alpha, beta, d, ply, n0) ==
    IF d >= 4 THEN out
    ELSE maxAfterMove(out, id, numMoves, alpha, beta, d, ply, n0,
                      cloneAndMove(out.heap, id, d))

\* the recursion on the clone p with its new tile, and Math.min
planOnPlaced(out, numMoves, alpha, beta, ply, p) ==
    joinMin(out,
            planAhead(p.heap, p.ref, numMoves - 1, alpha, beta, TRUE, ply + 1),
            Len(out.heap))

\* one placement of the minimizing loop: clone, insert, recurse, Math.min
placeAndPlan(out, id, numMoves, alpha, beta, cell, tileValue, ply) ==
    planOnPlaced(out, numMoves, alpha, beta, ply,
                 cloneAndPlace(out.heap, id, cell, tileValue))

\* the minimizing loop after the 4 was tried: break, or beta and on
minAfterFour(four, id, numMoves, alpha, beta, cells, i, ply, n0) ==
    IF cutsMin(four.value, alpha, beta) THEN cutOffMin(four)
    ELSE minLoop(four, id, numMoves, alpha, Min(beta, four.value),
                 cells, i + 1, ply, n0)

\* the minimizing loop after the 2 was tried: break, or beta and the 4
minAfterTwo(two, id, numMoves, alpha, beta, cells, i, ply, n0) ==
    IF cutsMin(two.value, alpha, beta) THEN cutOffMin(two)
    ELSE minAfterFour(
            placeAndPlan(two, id, numMoves, alpha, Min(beta, two.value),
                         cells[i], 4, ply),
            id, numMoves, alpha, Min(beta, two.value), cells, i, ply, n0)

\* the minimizing loop from availableCells[i] on
minLoop(out, id, numMoves, alpha, beta, cells, i, ply, n0) ==
    IF i > Len(cells) THEN out
    ELSE IF ~hasAdjacentTile(out.heap[id], cells[i])
    THEN minLoop(out, id, numMoves, alpha, beta, cells, i + 1, ply, n0)
    ELSE minAfterTwo(
            placeAndPlan(out, id, numMoves, alpha, beta, cells[i], 2, ply),
            id, numMoves, alpha, beta, cells, i, ply, n0)

\* is the value a call returns a number other than Infinity and -Infinity
finite(value) == value # Infinity /\ value # -Infinity

\* does the loop of a call have an iteration that calls planAhead: a
\* direction that moves, or an empty cell next to a tile
hasChoice(g, maximizing, ma) ==
    IF maximizing THEN ma.result
    ELSE \E i \in 1 .. Len(availableCells(g)) :
            hasAdjacentTile(g, availableCells(g)[i])

\* the record of a call kept in calls
callOf(numMoves, maximizing, ma, ply, g, value, recursed, static) ==
    [ply |-> ply, numMoves |-> numMoves, legal |-> ma.result,
     recursed |-> recursed, static |-> static, maximizing |-> maximizing,
     choice |-> hasChoice(g, maximizing, ma), finite |-> finite(value)]

\* the result of the call once gridQuality returned value
evaluatedAs(h, id, numMoves, maximizing, ma, ply, value) ==
    [heap |-> ma.heap, value |-> value,
     evalPly |-> ply,
     calls |-> {callOf(numMoves, maximizing, ma, ply, ma.heap[id], value,
                       FALSE, TRUE)},
     isolated |-> ma.heap[id] = h[id], pruned |-> 0,
     prunedMin |-> 0]

\* return this.gridQuality(grid)
evaluated(h, id, numMoves, maximizing, ma, ply) ==
    evaluatedAs(h, id, numMoves, maximizing, ma, ply,
                gridQuality(ma.heap[id]))

\* the record of a call that went through one of the loops and returned r
called(r, id, numMoves, maximizing, ma, ply) ==
    [r EXCEPT !.calls =
        @ \cup {callOf(numMoves, maximizing, ma, ply, ma.heap[id], r.value,
                       r.calls # {}, FALSE)}]

\* the test without !this.movesAvailable(grid)
cutoff_DepthOnly(ma, numMoves) == numMoves = 0

\* if (!this.movesAvailable(grid) || numMoves == 0)
cutoff(ma, numMoves) == ~ma.result \/ numMoves = 0

\* value = -Infinity or Infinity before a loop
startLoop(h, maximizing) ==
    [heap |-> h, value |-> IF maximizing THEN -Infinity ELSE Infinity,
     evalPly |-> 0, calls |-> {}, isolated |-> TRUE, pruned |-> 0,
     prunedMin |-> 0]

\* planAhead after its call of movesAvailable, whose answer is ma
planAfterTest(h, id, numMoves, alpha, beta, maximizing, ply, ma) ==
    IF cutoff(ma, numMoves)
    THEN evaluated(h, id, numMoves, maximizing, ma, ply)
    ELSE called(
            checkIsolated(
                IF maximizing
                THEN maxLoop(startLoop(ma.heap, TRUE), id, numMoves, alpha,
                             beta, 0, ply, Len(h))
                ELSE minLoop(startLoop(ma.heap, FALSE), id, numMoves, alpha,
                             beta, availableCells(ma.heap[id]), 1, ply, Len(h)),
                h, id),
            id, numMoves, maximizing, ma, ply)

planAhead(h, id, numMoves, alpha, beta, maximizing, ply) ==
    planAfterTest(h, id, numMoves, alpha, beta, maximizing, ply,
                  movesAvailable(h, id))

\* the comparison that replaces the best direction
\* a wrong comparison: a later direction of equal value replaces the best
improves_OrEqual(value2, value) == value2 >= value

\* if (value2 > value)
improves(value2, value) == value2 > value

\* the body of the loop of chooseBestMove2 after planAhead returned r
joinBest(out, r, d, n0) ==
    [heap |-> release(r.heap, n0),
     direction |-> IF improves(r.value, out.value) \/ out.direction = -1
                   THEN d ELSE out.direction,
     value |-> IF improves(r.value, out.value) THEN r.value ELSE out.value,
     values |-> Append(out.values, <<d, r.value>>),
     evalPly |-> Max(out.evalPly, r.evalPly),
     calls |-> out.calls \cup r.calls,
     isolated |-> out.isolated /\ r.isolated,
     pruned |-> out.pruned + r.pruned,
     prunedMin |-> out.prunedMin + r.prunedMin]

RECURSIVE bestLoop(_, _, _, _, _)
\* the loop of chooseBestMove2 after the move m of the clone
bestAfterMove(out, id, numMoves, d, n0, m) ==
    IF ~m.moved
    THEN bestLoop([out EXCEPT !.heap = release(m.heap, n0)],
                  id, numMoves, d + 1, n0)
    ELSE bestLoop(
            joinBest(out,
                     planAhead(m.heap, m.ref, numMoves, -Infinity, Infinity,
                               FALSE, 1),
                     d, n0),
            id, numMoves, d + 1, n0)

\* the loop of chooseBestMove2 from direction d on; out.values holds one
\* <<d, value2>> per direction that moved
bestLoop(out, id, numMoves, d, n0) ==
    IF d >= 4 THEN out
    ELSE bestAfterMove(out, id, numMoves, d, n0, cloneAndMove(out.heap, id, d))

\* var value = -Infinity; var direction = -1
startBest(h) ==
    [heap |-> h, direction |-> -1, value |-> -Infinity, values |-> <<>>,
     evalPly |-> 0, calls |-> {}, isolated |-> TRUE, pruned |-> 0,
     prunedMin |-> 0]

chooseBestMove2(h, id, numMoves) ==
    checkIsolated(bestLoop(startBest(h), id, numMoves, 0, Len(h)), h, id)

\* getBest, with the depth nextMove passes (5) as a parameter
bestResult(best, id) ==
    [heap |-> best.heap, move |-> best.direction,
     score |-> gridQuality(best.heap[id]), positions |-> 0, cutoffs |-> 0,
     values |-> best.values, evalPly |-> best.evalPly,
     calls |-> best.calls,
     isolated |-> best.isolated, pruned |-> best.pruned,
     prunedMin |-> best.prunedMin]

getBest(h, id, numMoves) == bestResult(chooseBestMove2(h, id, numMoves), id)

(***************************************************************************)
(* The boards enumerated, as customGrid arrays: a base board               *)
(* with at most MaxEdits cells emptied (0) or rewritten.                   *)
(***************************************************************************)
EditValues == {0, 2, 2048}

EmptyCustomGrid == [p \in Pos |-> 0]

\* a full board without two equal neighbours
Checkerboard == [p \in Pos |-> IF (p[1] + p[2]) % 2 = 0 THEN 2 ELSE 4]

\* a full board of capped tiles: rows of 2048 and rows of 4096
Capped == [p \in Pos |-> IF p[1] % 2 = 0 THEN 2048 ELSE 4096]

\* rows 2 2 4 4 and rows 1024 1024 2048 2048
Pairs ==
    [p \in Pos |->
        IF p[1] % 2 = 0
        THEN (IF p[2] < 2 THEN 2 ELSE 4)
        ELSE (IF p[2] < 2 THEN 1024 ELSE 2048)]

BaseCustomGrids == {EmptyCustomGrid, Checkerboard, Capped, Pairs}

\* row 0 = [2, 2, 4, _] on an otherwise empty board
RowOfThree ==
    [p \in Pos |-> IF p = <<0, 0>> \/ p = <<0, 1>> THEN 2
                   ELSE IF p = <<0, 2>> THEN 4 ELSE 0]

CustomGridsOver(base) ==
    UNION {{[p \in Pos |-> IF p \in S THEN f[p] ELSE base[p]] : f \in [S -> EditValues]}
            : S \in {T \in SUBSET Pos : Cardinality(T) <= MaxEdits}}

CustomGrids ==
    UNION {CustomGridsOver(base) : base \in BaseCustomGrids \cup {RowOfThree}}

\* the grids a move is tried on: a custom grid (pre = -1), or a custom grid
\* one move on, whose tiles carry the merge records and saved positions of
\* that move
InputGrid(c, pre) ==
    IF pre = -1 THEN setCustomGrid(c) ELSE move(setCustomGrid(c), pre).grid

(***************************************************************************)
(* SpecMove: Grid.move applied once to an input grid.  last records the    *)
(* operation, its input grid and its result.                               *)
(***************************************************************************)
InitMove ==
    /\ \E c \in CustomGrids, pre \in -1 .. 3 : grid = InputGrid(c, pre)
    /\ editMode = FALSE
    /\ manager = GameManager
    /\ last = [op |-> "init"]
    /\ steps = 0

GridMove(direction) ==
    /\ last.op = "init"
    /\ last' = [op |-> "move", direction |-> direction, before |-> grid,
                res |-> move(grid, direction)]
    /\ grid' = last'.res.grid
    /\ UNCHANGED <<editMode, manager, steps>>

(***************************************************************************)
(* The move-availability test applied to the grid of SpecMove.             *)
(***************************************************************************)
MovesAvailableProbe ==
    /\ last.op = "init"
    /\ last' = [op |-> "movesAvailable", before |-> grid,
                res |-> movesAvailable(<<grid>>, 1)]
    /\ grid' = last'.res.heap[1]
    /\ UNCHANGED <<editMode, manager, steps>>

NextMove ==
    \/ \E direction \in 0 .. 3 : GridMove(direction)
    \/ MovesAvailableProbe

SpecMove == InitMove /\ [][NextMove]_vars

(***************************************************************************)
(* SpecSpawn: Grid.addRandomTile applied once to a board, r1 and r2 being  *)
(* the two calls of Math.random().                                         *)
(***************************************************************************)
SpawnGrids ==
    UNION {CustomGridsOver(base) :
              base \in {EmptyCustomGrid, Checkerboard, RowOfThree}}

InitSpawn ==
    /\ \E c \in SpawnGrids : grid = setCustomGrid(c)
    /\ editMode = FALSE
    /\ manager = GameManager
    /\ last = [op |-> "init"]
    /\ steps = 0

AddRandomTileDraw(r1, r2) ==
    /\ last.op = "init"
    /\ last' = [op |-> "addRandomTile", before |-> grid,
                res |-> addRandomTile(grid, randomValue(r1),
                            randomIndex(r2, Len(availableCells(grid))))]
    /\ grid' = last'.res
    /\ UNCHANGED <<editMode, manager, steps>>

NextSpawn ==
    \E r1 \in 0 .. Draws - 1, r2 \in 0 .. Draws - 1 : AddRandomTileDraw(r1, r2)

SpecSpawn == InitSpawn /\ [][NextSpawn]_vars

(***************************************************************************)
(* SpecQuality: gridQuality applied once to a board.  last.res holds the   *)
(* accumulators after both traversals and the score.                       *)
(***************************************************************************)
\* a full board whose only equal neighbours are the last two tiles of row 0
LastPair ==
    [p \in Pos |->
        IF p[1] = 0 THEN (IF p[2] = 0 THEN 2 ELSE IF p[2] = 1 THEN 4 ELSE 8)
        ELSE IF (p[1] + p[2]) % 2 = 0 THEN 2 ELSE 4]

QualityGrids == CustomGrids \cup CustomGridsOver(LastPair)

InitQuality ==
    /\ \E c \in QualityGrids : grid = setCustomGrid(c)
    /\ editMode = FALSE
    /\ manager = GameManager
    /\ last = [op |-> "init"]
    /\ steps = 0

GridQuality ==
    /\ last.op = "init"
    /\ last' = [op |-> "gridQuality", before |-> grid,
                res |-> gridQualityTerms(grid)]
    /\ UNCHANGED <<grid, editMode, manager, steps>>

NextQuality == GridQuality

SpecQuality == InitQuality /\ [][NextQuality]_vars

(***************************************************************************)
(* SpecSearch: the 'think' handler (SmartAI.getBest) applied once, with a  *)
(* depth of 0 .. SearchDepth, to a base board with at most one cell        *)
(* rewritten (of Pairs, the board on which the search is widest, one cell  *)
(* of the diagonal emptied).                                               *)
(***************************************************************************)
SearchCustomGrids ==
    BaseCustomGrids
    \cup {[base EXCEPT ![p] = v] :
            base \in BaseCustomGrids \ {Pairs}, p \in Pos, v \in EditValues}
    \cup {[Pairs EXCEPT ![<<i, i>>] = 0] : i \in Coords}

InitSearch ==
    /\ \E c \in SearchCustomGrids : grid = setCustomGrid(c)
    /\ editMode = FALSE
    /\ manager = GameManager
    /\ last = [op |-> "init"]
    /\ steps = 0

Think(numMoves) ==
    /\ last.op = "init"
    /\ last' = [op |-> "getBest", numMoves |-> numMoves, before |-> grid,
                res |-> getBest(<<grid>>, 1, numMoves)]
    /\ grid' = last'.res.heap[1]
    /\ UNCHANGED <<editMode, manager, steps>>

NextSearch == \E numMoves \in 0 .. SearchDepth : Think(numMoves)

SpecSearch == InitSearch /\ [][NextSearch]_vars

(***************************************************************************)
(* Spec: the game as it is played.  setup leaves the grid empty (the start *)
(* tiles are switched off); then cell clicks in either edit mode, moves of *)
(* the grid and random tiles follow each other in any order, MaxSteps      *)
(* operations at most.                                                     *)
(***************************************************************************)
Init ==
    /\ grid = Grid(Size)
    /\ editMode = FALSE
    /\ manager = GameManager
    /\ last = [op |-> "setup"]
    /\ steps = 0

ToggleEditMode ==
    /\ steps < MaxSteps
    /\ editMode' = ~editMode
    /\ last' = [op |-> "toggleEditMode"]
    /\ steps' = steps + 1
    /\ UNCHANGED <<grid, manager>>

HandleCellClick(x, y) ==
    /\ steps < MaxSteps
    /\ grid' = handleCellClick(grid, editMode, x, y)
    /\ last' = [op |-> "handleCellClick"]
    /\ steps' = steps + 1
    /\ UNCHANGED <<editMode, manager>>

Swipe(direction) ==
    /\ steps < MaxSteps
    /\ grid' = move(grid, direction).grid
    /\ last' = [op |-> "swipe"]
    /\ steps' = steps + 1
    /\ UNCHANGED <<editMode, manager>>

AddRandomTile(value) ==
    /\ steps < MaxSteps
    /\ \E index \in 0 .. Max(Len(availableCells(grid)) - 1, 0) :
          grid' = addRandomTile(grid, value, index)
    /\ last' = [op |-> "addRandomTile"]
    /\ steps' = steps + 1
    /\ UNCHANGED <<editMode, manager>>

Next ==
    \/ ToggleEditMode
    \/ \E x \in Coords, y \in Coords : HandleCellClick(x, y)
    \/ \E direction \in 0 .. 3 : Swipe(direction)
    \/ \E value \in {2, 4} : AddRandomTile(value)

Spec == Init /\ [][Next]_vars

(***************************************************************************)
(* SpecRun: the auto-play loop.  The 'run' handler starts or stops the     *)
(* loop; started, it calls run, which asks the search for a move, calls    *)
(* GameManager.move and, while running and not over, sets a timer that     *)
(* calls run again.  manager.timers is the number of timers pending.  The  *)
(* result of run records the grid computerMove or skipComputerMove was     *)
(* called on (spawnedOn) and the calls made on the live grid (events).     *)
(* The 'restart', 'reset' and 'move' events and calls of setCustomGrid     *)
(* come in between in any order.                                           *)
(***************************************************************************)
\* if (this.computerGenerateTile) computerMove() else skipComputerMove()
computerTurn(g, m, value, index) ==
    IF m.computerGenerateTile THEN computerMove(g, value, index)
    ELSE skipComputerMove(g)

\* if (!this.grid.movesAvailable()) this.over = true
checkOver(g, m) == [m EXCEPT !.over = @ \/ ~gridMovesAvailable(g)]

movedGame(g, m) == [grid |-> g, manager |-> checkOver(g, m)]

\* GameManager.prototype.move: direction is not used by the body
managerMove(g, m, direction, value, index) ==
    movedGame(computerTurn(g, m, value, index), m)

\* the calls GameManager.move makes on the live grid
moveEvents(m) ==
    <<IF m.computerGenerateTile THEN "computerMove" ELSE "skipComputerMove",
      "movesAvailable", "actuate">>

\* a variant without !this.over
reschedule_IgnoresOver(m) ==
    IF m.running /\ ~m.won THEN [m EXCEPT !.timers = @ + 1] ELSE m

\* if (this.running && !this.over && !this.won) setTimeout(run)
reschedule(m) ==
    IF m.running /\ ~m.over /\ ~m.won THEN [m EXCEPT !.timers = @ + 1] ELSE m

ranGame(best, m, r) ==
    [grid |-> r.grid, manager |-> reschedule(r.manager), best |-> best,
     spawnedOn |-> Head(best.heap), events |-> <<"getBest">> \o moveEvents(m)]

runWith(best, m, value, index) ==
    ranGame(best, m, managerMove(Head(best.heap), m, best.move, value, index))

\* GameManager.prototype.run
run(g, m, value, index) == runWith(getBest(<<g>>, 1, RunDepth), m, value, index)

\* the 'run' handler when the loop is stopped: start it
startRunning(m) == [m EXCEPT !.running = TRUE, !.computerGenerateTile = TRUE]

\* the 'run' handler when the loop runs: stop it
stopRunning(m) == [m EXCEPT !.running = FALSE, !.computerGenerateTile = FALSE]

\* GameManager.prototype.setup, and the end of setCustomGrid
setup(m) == [m EXCEPT !.over = FALSE, !.won = FALSE]

\* GameManager.prototype.restart
restart(m) == setup([m EXCEPT !.running = FALSE])

\* GameManager.prototype.reset
reset(m) == setup(m)

RunBoards ==
    (BaseCustomGrids \ {EmptyCustomGrid})
    \cup {[Pairs EXCEPT ![<<i, i>>] = 0] : i \in Coords}
    \cup {[Checkerboard EXCEPT ![<<i, i>>] = 0] : i \in Coords}
    \cup {[EmptyCustomGrid EXCEPT ![<<i, i>>] = 2] : i \in 0 .. 1}
    \cup {[Checkerboard EXCEPT ![<<0, 0>>] = 0, ![<<0, 1>>] = 0]}

InitRun ==
    /\ \E c \in RunBoards : grid = setCustomGrid(c)
    /\ editMode = FALSE
    /\ manager = GameManager
    /\ last = [op |-> "init"]
    /\ steps = 0

RunStart(value) ==
    /\ ~manager.running
    /\ steps < MaxRuns
    /\ \E index \in 0 .. Max(Len(availableCells(grid)) - 1, 0) :
          last' = [op |-> "run", before |-> grid, wasOver |-> manager.over,
                   byTimer |-> FALSE,
                   res |-> run(grid, startRunning(manager), value, index)]
    /\ grid' = last'.res.grid
    /\ manager' = last'.res.manager
    /\ steps' = steps + 1
    /\ UNCHANGED editMode

RunStop ==
    /\ manager.running
    /\ manager' = stopRunning(manager)
    /\ last' = [op |-> "stop"]
    /\ UNCHANGED <<grid, editMode, steps>>

\* a pending timer fires.  The runs are counted up to MaxRuns; once the game
\* is over a run sets no timer, so those runs need no bound.
RunTimer(value) ==
    /\ manager.timers > 0
    /\ steps < MaxRuns \/ manager.over
    /\ \E index \in 0 .. Max(Len(availableCells(grid)) - 1, 0) :
          last' = [op |-> "run", before |-> grid, wasOver |-> manager.over,
                   byTimer |-> TRUE,
                   res |-> run(grid, [manager EXCEPT !.timers = @ - 1],
                               value, index)]
    /\ grid' = last'.res.grid
    /\ manager' = last'.res.manager
    /\ steps' = IF steps < MaxRuns THEN steps + 1 ELSE steps
    /\ UNCHANGED editMode

\* the 'restart' event
Restart ==
    /\ steps < MaxRuns
    /\ grid' = Grid(Size)
    /\ manager' = restart(manager)
    /\ last' = [op |-> "restart"]
    /\ steps' = steps + 1
    /\ UNCHANGED editMode

\* the 'reset' event
Reset ==
    /\ steps < MaxRuns
    /\ grid' = Grid(Size)
    /\ manager' = reset(manager)
    /\ last' = [op |-> "reset"]
    /\ steps' = steps + 1
    /\ UNCHANGED editMode

\* the boards setCustomGrid is called with while the game goes on
ReplacementBoards == {Checkerboard, [EmptyCustomGrid EXCEPT ![<<0, 0>>] = 2]}

SetCustomGrid(c) ==
    /\ steps < MaxRuns
    /\ grid' = setCustomGrid(c)
    /\ manager' = setup(manager)
    /\ last' = [op |-> "setCustomGrid"]
    /\ steps' = steps + 1
    /\ UNCHANGED editMode

\* the 'move' event: GameManager.move(direction)
MoveEvent(direction, value) ==
    /\ steps < MaxRuns
    /\ \E index \in 0 .. Max(Len(availableCells(grid)) - 1, 0) :
          last' = [op |-> "moveEvent", before |-> grid,
                   wasOver |-> manager.over,
                   res |-> managerMove(grid, manager, direction, value, index)]
    /\ grid' = last'.res.grid
    /\ manager' = last'.res.manager
    /\ steps' = steps + 1
    /\ UNCHANGED editMode

NextRun ==
    \/ \E value \in {2, 4} : RunStart(value)
    \/ RunStop
    \/ \E value \in {2, 4} : RunTimer(value)
    \/ Restart
    \/ Reset
    \/ \E c \in ReplacementBoards : SetCustomGrid(c)
    \/ \E direction \in 0 .. 3, value \in {2, 4} : MoveEvent(direction, value)

SpecRun == InitRun /\ [][NextRun]_vars

\* a timer set with setTimeout fires in the end; the fairness is needed, and
\* asked, only for the timers pending when the game is over
TimerWhenOver == manager.over /\ \E value \in {2, 4} : RunTimer(value)

\* TimerWhenOver is enabled exactly when the game is over and a timer is
\* pending, and it takes a timer away
TimerDue == manager.over /\ manager.timers > 0

\* WF_vars(TimerWhenOver), with TimerDue for ENABLED <<TimerWhenOver>>_vars
SpecRunFair ==
    SpecRun /\ ([]<>(~TimerDue) \/ []<><<TimerWhenOver>>_vars)

(***************************************************************************)
(* Observations of a grid used to state the properties.                    *)
(***************************************************************************)
Occupied(g) == {p \in DOMAIN g.cells : g.cells[p] # Null}

TilesOf(g) == {g.cells[p][1] : p \in Occupied(g)}

ValueAt(g, p) == IF g.cells[p] = Null THEN 0 ELSE g.cells[p][1].value

\* the value in every cell, 0 for an empty cell
Layout(g) == [p \in DOMAIN g.cells |-> ValueAt(g, p)]

RECURSIVE SumFrom(_, _, _)
SumFrom(g, order, i) ==
    IF i > Len(order) THEN 0
    ELSE ValueAt(g, order[i]) + SumFrom(g, order, i + 1)

TileSum(g) == SumFrom(g, ScanOrder(g.size), 1)

TileCount(g) == Cardinality(Occupied(g))

MergedTiles(g) == {t \in TilesOf(g) : t.mergedFrom # Null}

RECURSIVE SumOfValues(_)
SumOfValues(tiles) ==
    IF tiles = {} THEN 0
    ELSE LET t == CHOOSE u \in tiles : TRUE
         IN  t.value + SumOfValues(tiles \ {t})

Moved == last.op = "move"

(***************************************************************************)
(* C1.  Original statement: after Grid.move the sum of all tile values     *)
(* equals the sum before the move plus the score the move returned.        *)
(***************************************************************************)
C1_SumGrowsByScore ==
    Moved => TileSum(grid) = TileSum(last.before) + last.res.score

\* C1 as amended: Grid.move leaves the sum of all tile values unchanged (a
\* merge replaces two tiles of value v by one tile of value 2v), and the
\* score it returns is the sum of the values of the tiles its merges created.
C1_SumConserved ==
    Moved =>
        /\ TileSum(grid) = TileSum(last.before)
        /\ last.res.score = SumOfValues(MergedTiles(grid))

C1_Witness ==
    /\ Moved
    /\ last.res.merges >= 2
    /\ last.res.score > 0

(***************************************************************************)
(* C2.  Within one Grid.move no tile takes part in more than one merge:    *)
(* neither tile of a mergedFrom pair has itself a mergedFrom record, also  *)
(* when the grid moved carried the merge records of an earlier move.       *)
(***************************************************************************)
C2_NoChainedMerge ==
    Moved =>
        \A t \in MergedTiles(grid) :
            /\ Len(t.mergedFrom) = 2
            /\ t.mergedFrom[1].mergedFrom = Null
            /\ t.mergedFrom[2].mergedFrom = Null

\* a merged tile below the cap with a tile of its own value pushed against
\* it, on a grid that already carried merge records
C2_Witness ==
    /\ Moved
    /\ MergedTiles(last.before) # {}
    /\ \E t \in MergedTiles(grid) :
          LET behind == <<t.x - vectors[last.direction][1],
                          t.y - vectors[last.direction][2]>>
          IN  /\ t.value < winValue
              /\ cellContent(grid, behind) # Null
              /\ cellContent(grid, behind)[1].value = t.value

(***************************************************************************)
(* C3.  Grid.move never merges a pair in which either tile has value       *)
(* >= 2048: every tile of value >= 2048 stays on the board with its value, *)
(* and every tile a merge produces has value at most 2048.                 *)
(***************************************************************************)
CappedCount(g, v, flagged) ==
    Cardinality({p \in Occupied(g) :
                    /\ g.cells[p][1].value = v
                    /\ (flagged \/ g.cells[p][1].mergedFrom = Null)})

C3_CapNeverMerged ==
    Moved =>
        /\ \A t \in MergedTiles(grid) :
              /\ t.value <= 2048
              /\ t.mergedFrom[1].value < 2048
              /\ t.mergedFrom[2].value < 2048
        /\ \A v \in {t.value : t \in TilesOf(last.before)} :
              v >= 2048 => CappedCount(grid, v, FALSE) = CappedCount(last.before, v, TRUE)

\* two equal tiles of value >= 2048 next to each other in the line of the
\* move, and in the same move a merge that produces a 2048
C3_Witness ==
    /\ Moved
    /\ \E p \in Occupied(last.before) :
          LET q == <<p[1] + vectors[last.direction][1],
                     p[2] + vectors[last.direction][2]>>
          IN  /\ ValueAt(last.before, p) >= 2048
              /\ cellContent(last.before, q) # Null
              /\ ValueAt(last.before, q) = ValueAt(last.before, p)
    /\ \E t \in MergedTiles(grid) : t.value = 2048

(***************************************************************************)
(* C5.  Grid.move returns moved = true exactly when some tile ends at a    *)
(* position other than the one it had before the move; when it returns     *)
(* moved = false the score is 0 and every cell holds what it held, with    *)
(* playerTurn unchanged and only the merge records and saved positions     *)
(* reset.                                                                  *)
(***************************************************************************)
\* a tile that is no longer where prepareTiles saved it
Displaced(t) == t.previousPosition # <<t.x, t.y>>

SomeTileDisplaced(g) ==
    \E t \in TilesOf(g) :
        IF t.mergedFrom = Null THEN Displaced(t)
        ELSE Displaced(t.mergedFrom[1]) \/ Displaced(t.mergedFrom[2])

C5_MovedIffDisplaced ==
    Moved =>
        /\ last.res.moved <=> SomeTileDisplaced(grid)
        /\ last.res.moved <=> Layout(grid) # Layout(last.before)
        /\ ~last.res.moved =>
              /\ last.res.score = 0
              /\ Layout(grid) = Layout(last.before)
              /\ grid.playerTurn = last.before.playerTurn
              /\ \A p \in Occupied(grid) :
                    grid.cells[p] =
                        <<[Tile(p, ValueAt(last.before, p))
                              EXCEPT !.previousPosition = p]>>

\* a move that changes nothing, on a grid that carried merge records
C5_Witness ==
    /\ Moved
    /\ ~last.res.moved
    /\ TileCount(grid) > 0
    /\ MergedTiles(last.before) # {}

(***************************************************************************)
(* C4.  Original statement: the move-availability test of the search       *)
(* (SmartAI.movesAvailable) returns false exactly when every cell is       *)
(* occupied and no two 4-adjacent tiles of value < 2048 share a value; in  *)
(* particular it returns true whenever a cell is empty.                    *)
(***************************************************************************)
Probed == last.op = "movesAvailable"

Full(g) == Occupied(g) = DOMAIN g.cells

Adjacent(p, q) ==
    \/ (p[1] = q[1] /\ (p[2] - q[2] = 1 \/ q[2] - p[2] = 1))
    \/ (p[2] = q[2] /\ (p[1] - q[1] = 1 \/ q[1] - p[1] = 1))

\* two 4-adjacent tiles of the same value below 2048
MergeablePair(g) ==
    \E p \in Occupied(g), q \in Occupied(g) :
        /\ Adjacent(p, q)
        /\ ValueAt(g, p) = ValueAt(g, q)
        /\ ValueAt(g, p) < 2048

C4_FalseIffFullAndStuck ==
    Probed =>
        (~last.res.result <=> (Full(last.before) /\ ~MergeablePair(last.before)))

\* C4 as amended: SmartAI.movesAvailable returns false exactly when the
\* board holds no tile at all, or every cell is occupied and no two
\* 4-adjacent tiles of value < 2048 share a value; it returns true whenever
\* at least one cell is empty and at least one is occupied.  The answer is
\* the one Grid.tileMatchesAvailable gives on a full board.
C4_FalseIffEmptyOrStuck ==
    Probed =>
        /\ ~last.res.result <=>
              \/ Occupied(last.before) = {}
              \/ (Full(last.before) /\ ~MergeablePair(last.before))
        /\ Full(last.before) =>
              (last.res.result <=> tileMatchesAvailable(last.before))

\* a full board whose only equal neighbours are capped tiles
C4_Witness ==
    /\ Probed
    /\ ~last.res.result
    /\ Full(last.before)
    /\ \E p \in Occupied(last.before), q \in Occupied(last.before) :
          Adjacent(p, q) /\ ValueAt(last.before, p) = ValueAt(last.before, q)

(***************************************************************************)
(* C6.  In every state reached from the empty grid by moves, random tiles  *)
(* and cell clicks in either edit mode, every occupied cell holds exactly  *)
(* one tile, whose own x and y are the cell's index, every tile value is a *)
(* power of two >= 2, and the grid keeps its size.                         *)
(***************************************************************************)
PowerOfTwo(v) == v >= 2 /\ pow2(log2(v)) = v

C6_GridWellFormed ==
    /\ grid.size = Size
    /\ DOMAIN grid.cells = Pos
    /\ \A p \in Pos :
          \/ grid.cells[p] = Null
          \/ /\ Len(grid.cells[p]) = 1
             /\ <<grid.cells[p][1].x, grid.cells[p][1].y>> = p
             /\ PowerOfTwo(grid.cells[p][1].value)

\* a move has just merged two tiles in a cell neither of them was in
C6_Witness ==
    /\ last.op = "swipe"
    /\ \E t \in TilesOf(grid) :
          /\ t.mergedFrom # Null
          /\ t.mergedFrom[1].previousPosition # <<t.x, t.y>>
          /\ t.mergedFrom[2].previousPosition # <<t.x, t.y>>


(***************************************************************************)
(* The search without pruning: plain minimax over the same moves and the   *)
(* same placements.                                                        *)
(***************************************************************************)
Searched == last.op = "getBest"

MoveLegal(g, d) == move(g, d).moved

LegalMoves(g) == {d \in 0 .. 3 : MoveLegal(g, d)}

\* the boards a legal move leads to
MoveResults(g) == {m.grid : m \in {n \in {move(g, d) : d \in 0 .. 3} : n.moved}}

\* the boards a placed 2 or 4 leads to
Placements(g) ==
    {insertTile(g, Tile(c, v)) :
        c \in {p \in DOMAIN g.cells : g.cells[p] = Null /\ hasAdjacentTile(g, p)},
        v \in {2, 4}}

SetMax(S) == IF S = {} THEN -Infinity ELSE CHOOSE m \in S : \A x \in S : m >= x

SetMin(S) == IF S = {} THEN Infinity ELSE CHOOSE m \in S : \A x \in S : m <= x

RECURSIVE Minimax(_, _, _)
MinimaxOver(g, numMoves, maximizing, results) ==
    IF results = {} \/ numMoves = 0 THEN gridQuality(g)
    ELSE IF maximizing
    THEN SetMax({Minimax(b, numMoves - 1, FALSE) : b \in results})
    ELSE SetMin({Minimax(b, numMoves - 1, TRUE) : b \in Placements(g)})

Minimax(g, numMoves, maximizing) ==
    MinimaxOver(g, numMoves, maximizing, MoveResults(g))

\* the value of each direction without pruning, -Infinity where the move
\* is not legal
RootValues(g, numMoves) ==
    [d \in 0 .. 3 |->
        IF MoveLegal(g, d) THEN Minimax(move(g, d).grid, numMoves, FALSE)
        ELSE -Infinity]

\* the first direction, in the order 0 1 2 3, of the highest value
FirstBest(legal, value) ==
    IF legal = {} THEN -1
    ELSE CHOOSE d \in legal :
            /\ \A e \in legal : value[e] <= value[d]
            /\ \A e \in legal : value[e] = value[d] => d <= e

ValuesOf(res) == {res.values[i] : i \in 1 .. Len(res.values)}

(***************************************************************************)
(* C7.  A call of getBest / chooseBestMove2, with every planAhead and      *)
(* movesAvailable call it makes, leaves the grid it was given unchanged:   *)
(* every move and insertion is applied to a clone, never to the live grid  *)
(* nor to the grid of a search node that is still in its loop.             *)
(***************************************************************************)
C7_SearchLeavesGridAlone ==
    Searched =>
        /\ grid = last.before
        /\ last.res.isolated

\* a search of full depth that moved and placed tiles on the way
C7_Witness ==
    /\ Searched
    /\ last.numMoves = SearchDepth
    /\ last.res.move # -1
    /\ last.res.evalPly > SearchDepth
    /\ TileCount(last.before) > 0

(***************************************************************************)
(* C8.  The value planAhead returns with alpha-beta pruning, called with   *)
(* alpha = -Infinity and beta = Infinity, is the value of plain minimax    *)
(* over the same moves and placements, and chooseBestMove2 picks the       *)
(* direction it would pick from the unpruned values.                       *)
(***************************************************************************)
C8_PruningKeepsValue ==
    Searched =>
        \A unpruned \in {RootValues(last.before, last.numMoves)} :
            /\ \A e \in ValuesOf(last.res) : e[2] = unpruned[e[1]]
            /\ last.res.move = FirstBest(LegalMoves(last.before), unpruned)

\* a search that took breaks in the maximizing and in the minimizing loop
C8_Witness ==
    /\ Searched
    /\ last.res.prunedMin > 0
    /\ last.res.pruned > last.res.prunedMin
    /\ Len(last.res.values) >= 2

(***************************************************************************)
(* C9.  chooseBestMove2 considers exactly the directions whose move on a   *)
(* clone reports moved, returns the one of the highest search value, on    *)
(* equal values the first in the order UP(0), RIGHT(1), DOWN(2), LEFT(3),  *)
(* and returns -1 exactly when no direction is legal.                      *)
(***************************************************************************)
C9_FirstBestDirection ==
    Searched =>
        /\ {e[1] : e \in ValuesOf(last.res)} = LegalMoves(last.before)
        /\ (last.res.move = -1) <=> (LegalMoves(last.before) = {})
        /\ LegalMoves(last.before) # {} =>
              \E e \in ValuesOf(last.res) :
                  /\ e[1] = last.res.move
                  /\ \A f \in ValuesOf(last.res) :
                        /\ f[2] <= e[2]
                        /\ f[2] = e[2] => e[1] <= f[1]

\* two directions share the highest value and the first of them is returned
C9_Witness ==
    /\ Searched
    /\ last.numMoves >= 1
    /\ \E e \in ValuesOf(last.res), f \in ValuesOf(last.res) :
          /\ e[1] = last.res.move
          /\ f[1] > e[1]
          /\ f[2] = e[2]

(***************************************************************************)
(* C10.  chooseBestMove2 with depth n evaluates the state after each legal *)
(* root move with remaining depth n - 1, so every board gridQuality is     *)
(* called on is at most n plies (the root move being ply 1) from the root  *)
(* board.                                                                  *)
(***************************************************************************)
C10_EvalWithinDepth ==
    (Searched /\ last.numMoves >= 1) => last.res.evalPly <= last.numMoves


(***************************************************************************)
(* C11.  In every iteration of the auto-play loop the direction the search *)
(* returned is applied to the live grid with Grid.move before the tile is  *)
(* spawned: the calls of an iteration are getBest, move, the spawn and the *)
(* render in this order, and the grid the tile is spawned on is the grid   *)
(* the iteration started with, moved in that direction.                    *)
(***************************************************************************)
Ran == last.op = "run"

C11_MoveBeforeSpawn ==
    (Ran /\ last.res.best.move # -1) =>
        /\ \E i, j, k, l \in DOMAIN last.res.events :
              /\ i < j /\ j < k /\ k < l
              /\ last.res.events[i] = "getBest"
              /\ last.res.events[j] = "Grid.move"
              /\ last.res.events[k] = "computerMove"
              /\ last.res.events[l] = "actuate"
        /\ Layout(last.res.spawnedOn) =
              Layout(move(last.before, last.res.best.move).grid)


(***************************************************************************)
(* C12.  Grid.move never spawns a tile: the number of tiles after the move *)
(* is the number before minus the number of merges of the move, and every  *)
(* tile on the board afterwards is a tile of the board before, or the      *)
(* merge of two of them; no tile of the board before is used twice.        *)
(***************************************************************************)
\* the cells of the board before the move a tile comes from
Origins(t) ==
    IF t.mergedFrom = Null THEN {t.previousPosition}
    ELSE {t.mergedFrom[1].previousPosition, t.mergedFrom[2].previousPosition}

\* the value the tiles a tile comes from had together
OriginValue(g, t) ==
    IF t.mergedFrom = Null THEN ValueAt(g, t.previousPosition)
    ELSE ValueAt(g, t.mergedFrom[1].previousPosition)
         + ValueAt(g, t.mergedFrom[2].previousPosition)

C12_MoveSpawnsNothing ==
    Moved =>
        /\ Cardinality(MergedTiles(grid)) = last.res.merges
        /\ TileCount(grid) = TileCount(last.before) - last.res.merges
        /\ \A t \in TilesOf(grid) :
              /\ Origins(t) \subseteq Occupied(last.before)
              /\ Cardinality(Origins(t)) = (IF t.mergedFrom = Null THEN 1 ELSE 2)
              /\ t.value = OriginValue(last.before, t)
        /\ \A t \in TilesOf(grid), u \in TilesOf(grid) :
              t # u => Origins(t) \cap Origins(u) = {}
        /\ UNION {Origins(t) : t \in TilesOf(grid)} = Occupied(last.before)

\* a move with a merge and with a tile that slid without merging
C12_Witness ==
    /\ Moved
    /\ last.res.merges >= 1
    /\ \E t \in TilesOf(grid) : t.mergedFrom = Null /\ Displaced(t)
    /\ TileCount(grid) < TileCount(last.before)


(***************************************************************************)
(* C13.  Grid.addRandomTile on a full board changes nothing; on a board    *)
(* with an empty cell it adds exactly one tile, of value 2 or 4, at a cell *)
(* that was empty, and leaves every other cell as it was.                  *)
(***************************************************************************)
Spawned == last.op = "addRandomTile"

C13_AddsOneTileOrNothing ==
    Spawned =>
        IF Full(last.before) THEN grid = last.before
        ELSE /\ grid.size = last.before.size
             /\ grid.playerTurn = last.before.playerTurn
             /\ \E p \in DOMAIN grid.cells :
                   /\ last.before.cells[p] = Null
                   /\ grid.cells[p] # Null
                   /\ <<grid.cells[p][1].x, grid.cells[p][1].y>> = p
                   /\ grid.cells[p][1].value \in {2, 4}
                   /\ \A q \in DOMAIN grid.cells \ {p} :
                         grid.cells[q] = last.before.cells[q]

\* a 4 added at an empty cell that is not the first empty cell of a board
\* that holds tiles
C13_Witness ==
    /\ Spawned
    /\ TileCount(last.before) > 0
    /\ \E p \in Occupied(grid) \ Occupied(last.before) :
          /\ ValueAt(grid, p) = 4
          /\ p # availableCells(last.before)[1]


(***************************************************************************)
(* C14.  Grid.move resolves each line from the tile nearest the edge the   *)
(* move goes to: row 0 = [2, 2, 4, _] moved LEFT becomes [4, 4, _, _] with *)
(* score 4 and moved = true; after any move no tile has an empty cell of   *)
(* the board next to it in the direction of the move, every tile is in the *)
(* line it was in, and the tiles of a line keep their order.               *)
(***************************************************************************)
\* how far a cell is towards the edge a move along vector goes to
Along(p, vector) == p[1] * vector[1] + p[2] * vector[2]

\* the line of a cell for a move along vector
Across(p, vector) == IF vector[1] # 0 THEN p[2] ELSE p[1]

Packed(g, vector) ==
    \A p \in Occupied(g) :
        withinBounds(g, <<p[1] + vector[1], p[2] + vector[2]>>) =>
            cellOccupied(g, <<p[1] + vector[1], p[2] + vector[2]>>)

OrderKept(g, vector) ==
    \A t \in TilesOf(g), u \in TilesOf(g) :
        \A ot \in Origins(t), ou \in Origins(u) :
            /\ Across(ot, vector) = Across(<<t.x, t.y>>, vector)
            /\ (t # u /\ Across(ot, vector) = Across(ou, vector)
                     /\ Along(ot, vector) > Along(ou, vector))
                  => Along(<<t.x, t.y>>, vector) > Along(<<u.x, u.y>>, vector)

C14_LinesPacked ==
    Moved =>
        /\ Packed(grid, vectors[last.direction])
        /\ OrderKept(grid, vectors[last.direction])
        /\ (Layout(last.before) = Layout(setCustomGrid(RowOfThree))
                /\ last.direction = 3)
              => /\ Layout(grid) =
                      Layout(setCustomGrid(
                          [p \in Pos |-> IF p = <<0, 0>> \/ p = <<0, 1>>
                                         THEN 4 ELSE 0]))
                 /\ last.res.score = 4
                 /\ last.res.moved

\* row 0 = [2, 2, 4, _] moved LEFT
C14_Witness ==
    /\ Moved
    /\ last.direction = 3
    /\ Layout(last.before) = Layout(setCustomGrid(RowOfThree))
    /\ last.res.merges = 1


(***************************************************************************)
(* C15.  chooseBestMove2 is deterministic: two boards with the same tiles  *)
(* at the same cells, searched to the same depth, give the same direction, *)
(* whatever the merge records and saved positions of their tiles and       *)
(* whatever their playerTurn flags are.  (The search calls no random       *)
(* source: getBest has no input but the grid and the depth.)               *)
(***************************************************************************)
\* the tile with the records of a merge and of a slide from the corner
MarkedTile(tile) ==
    [tile EXCEPT !.previousPosition = <<0, 0>>,
                 !.mergedFrom = <<Tile(<<0, 0>>, tile.value),
                                  Tile(<<0, 0>>, tile.value)>>]

\* the board g with playerTurn set and with every tile marked
Marked(g, turn) ==
    [g EXCEPT !.playerTurn = turn,
              !.cells = [p \in DOMAIN g.cells |->
                  IF g.cells[p] = Null THEN Null
                  ELSE <<MarkedTile(g.cells[p][1])>>]]

C15_SameBoardSameMove ==
    Searched =>
        \A turn \in BOOLEAN :
            getBest(<<Marked(last.before, turn)>>, 1,
                    last.numMoves).move = last.res.move

\* a search two moves deep on a board with two equal tiles side by side
C15_Witness ==
    /\ Searched
    /\ last.numMoves >= 2
    /\ last.res.move # -1
    /\ MergeablePair(last.before)


(***************************************************************************)
(* C16.  Every call of planAhead with a depth of 0 or more terminates:     *)
(* the depth of a call is that of the first call less the number of calls  *)
(* above it, so it is never negative, and a call whose depth is 0 or whose *)
(* board has no legal move returns gridQuality of its board and makes no   *)
(* call of planAhead.                                                      *)
(***************************************************************************)
C16_DepthFallsToCutoff ==
    Searched =>
        \A c \in last.res.calls :
            /\ c.numMoves >= 0
            /\ c.ply + c.numMoves = 1 + last.numMoves
            /\ (c.numMoves = 0 \/ ~c.legal) => (c.static /\ ~c.recursed)

\* a search with a call that made calls, one of them at a depth above 0 on
\* a board without a legal move
C16_Witness ==
    /\ Searched
    /\ \E c \in last.res.calls : c.numMoves > 0 /\ ~c.legal /\ c.static
    /\ \E c \in last.res.calls : c.recursed /\ c.legal /\ c.numMoves > 0


(***************************************************************************)
(* Observations of the lines of a board.  A line is a column (byColumn) or *)
(* a row, read in the order gridQuality scans it.                          *)
(***************************************************************************)
Scored == last.op = "gridQuality"

Lines == {<<fixed, byColumn>> : fixed \in 0 .. Size - 1, byColumn \in BOOLEAN}

\* the value in every cell of a line, 0 for an empty cell
LineValues(g, line) ==
    [k \in 1 .. g.size |-> ValueAt(g, lineCell(line[1], k - 1, line[2]))]

\* the values of the tiles of a line
LineTiles(g, line) == SelectSeq(LineValues(g, line), LAMBDA v : v # 0)

RECURSIVE SumOver(_, _)
SumOver(f, S) ==
    IF S = {} THEN 0
    ELSE LET e == CHOOSE x \in S : TRUE IN f[e] + SumOver(f, S \ {e})

\* the first tiles of the runs of two or more equal tiles below 2048
RunStarts(vs) ==
    {i \in 1 .. Len(vs) - 1 :
        vs[i] = vs[i + 1] /\ vs[i] < 2048 /\ (i = 1 \/ vs[i - 1] # vs[i])}

\* the tiles below 2048 that repeat the tile before them
Repeats(vs) == {i \in 2 .. Len(vs) : vs[i] = vs[i - 1] /\ vs[i] < 2048}

\* 1 + n for every run of every line, n being the tiles of the run
RunScoreByTiles(g) ==
    SumOver([line \in Lines |->
                2 * Cardinality(RunStarts(LineTiles(g, line)))
                + Cardinality(Repeats(LineTiles(g, line)))],
            Lines)

\* 1 + n for every run of every line, n being the repeats of the run
RunScoreByRepeats(g) ==
    SumOver([line \in Lines |->
                Cardinality(RunStarts(LineTiles(g, line)))
                + Cardinality(Repeats(LineTiles(g, line)))],
            Lines)

(***************************************************************************)
(* C17.  The merge-opportunity score of gridQuality counts every run of    *)
(* equal tiles below 2048 of every row and of every column, a run of       *)
(* length n adding 1 + n, wherever the run lies in its line (n read as the *)
(* tiles of the run, or as the tiles after its first).                     *)
(***************************************************************************)
C17_EveryRunCounted ==
    Scored =>
        \/ last.res.mergeScore = RunScoreByTiles(last.before)
        \/ last.res.mergeScore = RunScoreByRepeats(last.before)


(***************************************************************************)
(* C18.  In the monotonicity term of gridQuality the difference of         *)
(* log2(value)^4 is accumulated only between consecutive non-empty cells   *)
(* of a line (read as the tiles of the line one after the other, or as the *)
(* neighbouring cells that both hold a tile), and a transition adds        *)
(* nothing to incScore or decScore when either of its two tiles is 2048 or *)
(* more.                                                                   *)
(***************************************************************************)
\* the accumulators after the inner forEach of one line
LineScore(g, line) ==
    scoreLine(startLine(startScore), g, line[1],
              [k \in 1 .. g.size |-> k - 1], line[2])

\* what the step from vs[i] to vs[i + 1] adds to incScore
IncOf(vs, i) ==
    IF vs[i] < 2048 /\ vs[i + 1] < 2048 /\ log2(vs[i + 1]) > log2(vs[i])
    THEN pow4(log2(vs[i + 1])) - pow4(log2(vs[i]))
    ELSE 0

\* what the step from vs[i] to vs[i + 1] adds to decScore
DecOf(vs, i) ==
    IF vs[i] < 2048 /\ vs[i + 1] < 2048 /\ log2(vs[i + 1]) <= log2(vs[i])
    THEN pow4(log2(vs[i])) - pow4(log2(vs[i + 1]))
    ELSE 0

\* the steps between neighbouring cells that both hold a tile
TileSteps(vs) == {i \in 1 .. Len(vs) - 1 : vs[i] # 0 /\ vs[i + 1] # 0}

MonotonicityOver(acc, vs) ==
    /\ acc.incScore = SumOver([i \in TileSteps(vs) |-> IncOf(vs, i)],
                              TileSteps(vs))
    /\ acc.decScore = SumOver([i \in TileSteps(vs) |-> DecOf(vs, i)],
                              TileSteps(vs))

C18_MonotonicityBetweenTiles ==
    Scored =>
        \A line \in Lines :
            \/ MonotonicityOver(LineScore(last.before, line),
                                LineTiles(last.before, line))
            \/ MonotonicityOver(LineScore(last.before, line),
                                LineValues(last.before, line))


(***************************************************************************)
(* C19.  gridQuality counts each cell once in its board-wide terms: the    *)
(* empty-cell count is the number of unoccupied cells, the count of large  *)
(* tiles is the number of tiles of 2048 or more, and the adjacency bonus   *)
(* is added once for every pair of a tile of 2048 or more and a neighbour  *)
(* of 2048 or more.                                                        *)
(***************************************************************************)
CappedCells(g) == {p \in Occupied(g) : ValueAt(g, p) >= 2048}

\* the pairs (tile >= 2048, 4-neighbour >= 2048)
CappedPairs(g) ==
    {pq \in CappedCells(g) \X CappedCells(g) : Adjacent(pq[1], pq[2])}

C19_CellsCountedOnce ==
    Scored =>
        /\ last.res.emptyScore = Size * Size - TileCount(last.before)
        /\ last.res.twentyFortyEightCount =
              Cardinality(CappedCells(last.before))
        /\ last.res.twentyFortyEightAlignment =
              1000 * Cardinality(CappedPairs(last.before))

(***************************************************************************)
(* C20.  gridQuality subtracts the penalty of 200000 exactly for the full  *)
(* boards on which no two equal tiles below 2048 are neighbours in a row   *)
(* or a column; a full board with such a pair is not penalised.            *)
(***************************************************************************)
Penalised == last.res.score = weightedScore(last.res) - 100 * 200000

C20_PenaltyIffStalemate ==
    Scored =>
        (Penalised <=> (Full(last.before) /\ ~MergeablePair(last.before)))


(***************************************************************************)
(* C21.  Every call of planAhead that chooseBestMove2 makes, directly or   *)
(* through planAhead, returns a finite value: a minimizing call that       *)
(* passes the cut-off test has an empty cell next to a tile to place a     *)
(* tile on, a maximizing call that passes it has a direction that moves,   *)
(* and no value compared at the root is Infinity or -Infinity.             *)
(***************************************************************************)
C21_ValuesFinite ==
    Searched =>
        /\ \A c \in last.res.calls :
              /\ c.finite
              /\ ~c.static => (c.choice /\ c.recursed)
        /\ \A i \in DOMAIN last.res.values : finite(last.res.values[i][2])

\* a search in which a minimizing and a maximizing call went through their
\* loops and two directions were compared at the root
C21_Witness ==
    /\ Searched
    /\ \E c \in last.res.calls : ~c.static /\ c.maximizing /\ c.recursed
    /\ \E c \in last.res.calls : ~c.static /\ ~c.maximizing /\ c.recursed
    /\ Len(last.res.values) >= 2


(***************************************************************************)
(* C22.  Whatever the order of 'run', 'restart' and 'reset' events and of  *)
(* timer firings, at most one timer of GameManager.run is pending, so at   *)
(* most one chain of automatic moves is active.                            *)
(***************************************************************************)
C22_OneTimerPending == manager.timers <= 1

(***************************************************************************)
(* C23.  Once GameManager.over is true it stays true under every move and  *)
(* every run, and only setup (restart, reset) or setCustomGrid clear it;   *)
(* while over is true a run sets no further timer, so the timers pending   *)
(* when the game is over run out: the chain of automatic moves stops.      *)
(***************************************************************************)
\* the step is a call of GameManager.run
RunStep ==
    /\ last'.op = "run"
    /\ steps' # steps \/ manager'.timers # manager.timers

\* the step is a 'move' event
MoveStep == last'.op = "moveEvent" /\ steps' # steps

OverSticks ==
    manager.over =>
        /\ (RunStep \/ MoveStep) => manager'.over
        /\ ~manager'.over => last'.op \in {"restart", "reset", "setCustomGrid"}
        /\ RunStep => manager'.timers <= manager.timers

C23_OverStopsChain ==
    /\ [][OverSticks]_vars
    /\ (manager.over /\ manager.timers > 0)
          ~> (manager.timers = 0 \/ ~manager.over)

\* a run made by a timer while the game was over, which left no timer
C23_Witness ==
    /\ last.op = "run"
    /\ last.byTimer
    /\ last.wasOver
    /\ manager.over
    /\ manager.running
    /\ manager.timers = 0
    /\ steps = MaxRuns

(***************************************************************************)
(* C24.  In every state of the GameManager, after any 'run', 'restart',    *)
(* 'reset' and 'move' events, computerGenerateTile is true exactly when    *)
(* running is true.                                                        *)
(***************************************************************************)
C24_GenerateIffRunning == manager.computerGenerateTile <=> manager.running

====
